---- MODULE Spec2Model ----
(***************************************************************************)
(* Boot sequence of the Nyuzi kernel (software/kernel/main.c):             *)
(* kernel_main on hardware thread 0, the thread enable register at         *)
(* 0xffff0100, and thread_n_main on every other hardware thread.           *)
(*                                                                         *)
(* 32-bit words are kept as 8 hexadecimal digits, most significant first   *)
(* (0xabcdef12 is <<10,11,12,13,14,15,1,2>>), so that no value leaves the  *)
(* range of the model checker's integers.                                  *)
(***************************************************************************)
EXTENDS Integers, Sequences, FiniteSets, TLC

\* ------------------------------------------------------------ bounds
\* Hardware threads on the core (thread 0 boots; the others wait at reset).
NumThreads == 3

Threads == 0 .. (NumThreads - 1)
Workers == Threads \ {0}

\* ------------------------------------------------------------ words
Nibbles == 0 .. 15
ZeroWord == <<0, 0, 0, 0, 0, 0, 0, 0>>
OnesWord == <<15, 15, 15, 15, 15, 15, 15, 15>>

\* Bit i (0 = least significant) of a 32-bit word.
Pow2(k) == IF k = 0 THEN 1 ELSE IF k = 1 THEN 2 ELSE IF k = 2 THEN 4 ELSE 8
Bit(w, i) == ((w[8 - (i \div 4)] \div Pow2(i % 4)) % 2) = 1

\* ------------------------------------------------------------ constants of main.c
\* a mistyped pattern
SentinelMistyped == <<10, 11, 12, 13, 14, 15, 2, 1>>
\* *block = 0xabcdef12
Sentinel == <<10, 11, 12, 13, 14, 15, 1, 2>>
\* the address written at "Start other threads": 0xffff0100
ReleaseAddr == <<15, 15, 15, 15, 0, 1, 0, 0>>
\* a mask with the top bit dropped
EnableMaskShort == <<7, 15, 15, 15, 15, 15, 15, 15>>
\* a mask that leaves the last thread out
EnableMaskPartial == <<0, 0, 0, 0, 0, 0, 0, 3>>
\* the value written there: 0xffffffff
EnableMask == OnesWord
\* kmalloc(0x1000)
AllocSize == <<0, 0, 0, 0, 1, 0, 0, 0>>
\* __builtin_nyuzi_read_control_reg(0)
CrIndex == 0
\* "Hello kernel land\n"
Greeting == <<"Hello kernel land", "\n">>

\* Orders of the statements a slip in kernel_main would give.
KernelOrderReleaseFirst ==
    <<"release", "vm_init", "hello", "kmalloc", "write", "read", "print_hex", "loop">>
KernelOrderNoVmInit ==
    <<"hello", "kmalloc", "write", "read", "print_hex", "release", "loop">>
KernelOrderVmInitTwice ==
    <<"vm_init", "hello", "vm_init", "kmalloc", "write", "read", "print_hex", "release",
      "loop">>
KernelOrderKmallocFirst ==
    <<"kmalloc", "vm_init", "hello", "write", "read", "print_hex", "release", "loop">>

KernelOrderReleaseEarly ==
    <<"vm_init", "hello", "kmalloc", "write", "read", "release", "print_hex", "loop">>
KernelOrderNoHello ==
    <<"vm_init", "kmalloc", "write", "read", "print_hex", "release", "loop">>

\* The statements of kernel_main in program order.
KernelOrder ==
    <<"vm_init", "hello", "kmalloc", "write", "read", "print_hex", "release", "loop">>

\* ------------------------------------------------------------ collaborators
\* a core that lets every thread run from reset
ResetEnableAll == <<0, 0, 0, 0, 0, 0, 0, 7>>
\* The thread enable register of the core, and its value at reset: only
\* thread 0 runs.
ThreadEnableAddr == <<15, 15, 15, 15, 0, 1, 0, 0>>
ResetEnable == <<0, 0, 0, 0, 0, 0, 0, 1>>

\* The kernel heap: the page addresses kmalloc may hand out, and the null
\* pointer it returns as its failure signal.
HeapPages == {<<12, 0, 0, 0, 0, 0, 0, 0>>, <<12, 0, 0, 0, 1, 0, 0, 0>>}
NullPtr == ZeroWord
\* What a page may hold before it is written.
InitWords == {ZeroWord, OnesWord}

\* Control register idx of hardware thread t: register 0 is the thread id.
ControlReg(t, idx) == IF idx = 0 THEN t ELSE 0

\* The shared reset entry sends thread 0 to kernel_main and every other
\* thread to thread_n_main.
EntryOf(t) == IF t = 0 THEN "kernel_main" ELSE "thread_n_main"

\* ------------------------------------------------------------ kprintf
HexChars ==
    <<"0", "1", "2", "3", "4", "5", "6", "7", "8", "9", "a", "b", "c", "d", "e", "f">>
DecChars == <<"0", "1", "2", "3", "4", "5", "6", "7", "8", "9">>

\* "%08x": eight lower-case hexadecimal digits, zero padded.
FormatHex8(w) == [i \in 1 .. 8 |-> HexChars[w[i] + 1]]

\* "%d": signed decimal, no padding.
RECURSIVE FormatUDec(_)
FormatUDec(n) ==
    IF n < 10 THEN <<DecChars[n + 1]>>
    ELSE FormatUDec(n \div 10) \o <<DecChars[(n % 10) + 1]>>
FormatDec(n) == IF n < 0 THEN <<"-">> \o FormatUDec(0 - n) ELSE FormatUDec(n)

VARIABLES
    pc,             \* per hardware thread: "reset", "kernel_main", "thread_n_main", "kprintf", "loop"
    kpc,            \* thread 0: index of the current statement of kernel_main
    kmode,          \* thread 0: "run", "in_vm_init", "in_kmalloc", "halt", "fault"
    vm_state,       \* "uninit", "running", "done", "failed"
    vm_init_calls,  \* calls of vm_init so far
    kmalloc_calls,  \* calls of kmalloc so far, as <<size, vm_state>>
    block,          \* kernel_main's local: the pointer kmalloc returned
    mem,            \* contents of the heap pages
    accesses,       \* loads and stores made through block, as <<kind, address, vm_state>>
    readval,        \* the word loaded from *block
    thread_enable,  \* the thread enable register
    ter_writes,     \* writes to the thread enable register, as <<thread, vm_state>>
    crval,          \* per thread: the control register value it read
    entries,        \* per thread: times it entered thread_n_main
    out             \* the diagnostic stream: records [thread, text]

vars ==
    <<pc, kpc, kmode, vm_state, vm_init_calls, kmalloc_calls, block, mem, accesses,
      readval, thread_enable, ter_writes, crval, entries, out>>

NoBlock == <<>>
NoWord == <<>>
NoValue == -1

Init ==
    /\ pc = [t \in Threads |-> IF Bit(ResetEnable, t) THEN EntryOf(t) ELSE "reset"]
    /\ kpc = 1
    /\ kmode = "run"
    /\ vm_state = "uninit"
    /\ vm_init_calls = 0
    /\ kmalloc_calls = <<>>
    /\ block = NoBlock
    /\ mem \in [HeapPages -> InitWords]
    /\ accesses = <<>>
    /\ readval = NoWord
    /\ thread_enable = ResetEnable
    /\ ter_writes = <<>>
    /\ crval = [t \in Threads |-> NoValue]
    /\ entries = [t \in Threads |-> 0]
    /\ out = <<>>

\* ------------------------------------------------------------ kernel_main
KernelReturned == kpc > Len(KernelOrder)
Stmt == IF KernelReturned THEN "returned" ELSE KernelOrder[kpc]
AtStmt(s) == pc[0] = "kernel_main" /\ kmode = "run" /\ Stmt = s

\* vm_init();
KernelCallVmInit ==
    /\ AtStmt("vm_init")
    /\ kmode' = "in_vm_init"
    /\ vm_state' = "running"
    /\ vm_init_calls' = vm_init_calls + 1
    /\ UNCHANGED <<pc, kpc, kmalloc_calls, block, mem, accesses, readval,
                   thread_enable, ter_writes, crval, entries, out>>

\* vm_init returns: the address space is set up.
VmInitReturn ==
    /\ kmode = "in_vm_init"
    /\ vm_state' = "done"
    /\ kmode' = "run"
    /\ kpc' = kpc + 1
    /\ UNCHANGED <<pc, vm_init_calls, kmalloc_calls, block, mem, accesses, readval,
                   thread_enable, ter_writes, crval, entries, out>>

\* vm_init fails: it halts or loops forever and never returns.
VmInitFail ==
    /\ kmode = "in_vm_init"
    /\ vm_state' = "failed"
    /\ kmode' = "halt"
    /\ UNCHANGED <<pc, kpc, vm_init_calls, kmalloc_calls, block, mem, accesses,
                   readval, thread_enable, ter_writes, crval, entries, out>>

\* kprintf("Hello kernel land\n");
KernelHello ==
    /\ AtStmt("hello")
    /\ out' = Append(out, [thread |-> 0, text |-> Greeting])
    /\ kpc' = kpc + 1
    /\ UNCHANGED <<pc, kmode, vm_state, vm_init_calls, kmalloc_calls, block, mem,
                   accesses, readval, thread_enable, ter_writes, crval, entries>>

\* block = (volatile unsigned int*) kmalloc(0x1000);  -- the call
KernelCallKmalloc ==
    /\ AtStmt("kmalloc")
    /\ kmode' = "in_kmalloc"
    /\ kmalloc_calls' = Append(kmalloc_calls, <<AllocSize, vm_state>>)
    /\ UNCHANGED <<pc, kpc, vm_state, vm_init_calls, block, mem, accesses, readval,
                   thread_enable, ter_writes, crval, entries, out>>

\* kmalloc returns a mapped page; the result is assigned to block.
KmallocReturn ==
    /\ kmode = "in_kmalloc"
    /\ \E p \in HeapPages : block' = p
    /\ kmode' = "run"
    /\ kpc' = kpc + 1
    /\ UNCHANGED <<pc, vm_state, vm_init_calls, kmalloc_calls, mem, accesses, readval,
                   thread_enable, ter_writes, crval, entries, out>>

\* kmalloc cannot satisfy the request and returns its failure signal; the
\* result is assigned to block all the same.
KmallocFail ==
    /\ kmode = "in_kmalloc"
    /\ block' = NullPtr
    /\ kmode' = "run"
    /\ kpc' = kpc + 1
    /\ UNCHANGED <<pc, vm_state, vm_init_calls, kmalloc_calls, mem, accesses, readval,
                   thread_enable, ter_writes, crval, entries, out>>

\* *block = 0xabcdef12;
\* Through a page of the heap the store lands in that page.  Through the
\* failure pointer the store is undefined: it traps, or it goes through to
\* whatever is at that address.
KernelWrite ==
    /\ AtStmt("write")
    /\ accesses' = Append(accesses, <<"store", block, vm_state>>)
    /\ \/ /\ block \in HeapPages
          /\ mem' = [mem EXCEPT ![block] = Sentinel]
          /\ kpc' = kpc + 1
          /\ UNCHANGED kmode
       \/ /\ block \notin HeapPages
          /\ UNCHANGED mem
          /\ \/ kmode' = "fault" /\ UNCHANGED kpc
             \/ kpc' = kpc + 1 /\ UNCHANGED kmode
    /\ UNCHANGED <<pc, vm_state, vm_init_calls, kmalloc_calls, block, readval,
                   thread_enable, ter_writes, crval, entries, out>>

\* the load of *block, the argument of the second kprintf
KernelRead ==
    /\ AtStmt("read")
    /\ accesses' = Append(accesses, <<"load", block, vm_state>>)
    /\ \/ /\ block \in HeapPages
          /\ readval' = mem[block]
          /\ kpc' = kpc + 1
          /\ UNCHANGED kmode
       \/ /\ block \notin HeapPages
          /\ \/ kmode' = "fault" /\ UNCHANGED <<kpc, readval>>
             \/ /\ readval' \in InitWords \cup {Sentinel}
                /\ kpc' = kpc + 1
                /\ UNCHANGED kmode
    /\ UNCHANGED <<pc, vm_state, vm_init_calls, kmalloc_calls, block, mem,
                   thread_enable, ter_writes, crval, entries, out>>

\* a smoke test that stops the boot when the pattern does not come back
KernelPrintHexAsserting ==
    /\ AtStmt("print_hex")
    /\ out' = Append(out, [thread |-> 0, text |-> FormatHex8(readval) \o <<"\n">>])
    /\ IF readval = Sentinel
       THEN kpc' = kpc + 1 /\ UNCHANGED kmode
       ELSE kmode' = "halt" /\ UNCHANGED kpc
    /\ UNCHANGED <<pc, vm_state, vm_init_calls, kmalloc_calls, block, mem,
                   accesses, readval, thread_enable, ter_writes, crval, entries>>

\* kprintf("%08x\n", *block);
KernelPrintHex ==
    /\ AtStmt("print_hex")
    /\ out' = Append(out, [thread |-> 0, text |-> FormatHex8(readval) \o <<"\n">>])
    /\ kpc' = kpc + 1
    /\ UNCHANGED <<pc, kmode, vm_state, vm_init_calls, kmalloc_calls, block, mem,
                   accesses, readval, thread_enable, ter_writes, crval, entries>>

\* *((volatile unsigned int*) 0xffff0100) = 0xffffffff;
KernelRelease ==
    /\ AtStmt("release")
    /\ IF ReleaseAddr = ThreadEnableAddr
       THEN /\ thread_enable' = EnableMask
            /\ ter_writes' = Append(ter_writes, <<0, vm_state>>)
       ELSE UNCHANGED <<thread_enable, ter_writes>>
    /\ kpc' = kpc + 1
    /\ UNCHANGED <<pc, kmode, vm_state, vm_init_calls, kmalloc_calls, block, mem,
                   accesses, readval, crval, entries, out>>

\* a loop that repeats the release write
KernelLoopReleasing ==
    /\ AtStmt("loop")
    /\ thread_enable' = EnableMask
    /\ ter_writes' = Append(ter_writes, <<0, vm_state>>)
    /\ UNCHANGED <<pc, kpc, kmode, vm_state, vm_init_calls, kmalloc_calls, block, mem,
                   accesses, readval, crval, entries, out>>

\* the fault-forcing store of line 42 left enabled: *((unsigned int*) 1) = 1
KernelLoopFaulting ==
    /\ AtStmt("loop")
    /\ accesses' = Append(accesses, <<"store", <<0, 0, 0, 0, 0, 0, 0, 1>>, vm_state>>)
    /\ kmode' = "fault"
    /\ UNCHANGED <<pc, kpc, vm_state, vm_init_calls, kmalloc_calls, block, mem,
                   readval, thread_enable, ter_writes, crval, entries, out>>

\* a loop that ends
KernelLoopExits ==
    /\ AtStmt("loop")
    /\ kpc' = kpc + 1
    /\ UNCHANGED <<pc, kmode, vm_state, vm_init_calls, kmalloc_calls, block, mem,
                   accesses, readval, thread_enable, ter_writes, crval, entries, out>>

\* for (;;) ;
KernelLoop ==
    /\ AtStmt("loop")
    /\ UNCHANGED vars

\* ------------------------------------------------------------ other threads
\* A thread waiting at reset starts at the shared entry once its bit of the
\* thread enable register is set.
ThreadStart(t) ==
    /\ pc[t] = "reset"
    /\ Bit(thread_enable, t)
    /\ pc' = [pc EXCEPT ![t] = EntryOf(t)]
    /\ entries' = [entries EXCEPT ![t] = @ + 1]
    /\ UNCHANGED <<kpc, kmode, vm_state, vm_init_calls, kmalloc_calls, block, mem,
                   accesses, readval, thread_enable, ter_writes, crval, out>>

\* a read of the wrong control register
ThreadReadCrWrongReg(t) ==
    /\ pc[t] = "thread_n_main"
    /\ crval' = [crval EXCEPT ![t] = ControlReg(t, 1)]
    /\ pc' = [pc EXCEPT ![t] = "kprintf"]
    /\ UNCHANGED <<kpc, kmode, vm_state, vm_init_calls, kmalloc_calls, block, mem,
                   accesses, readval, thread_enable, ter_writes, entries, out>>

\* __builtin_nyuzi_read_control_reg(0), the argument of kprintf
ThreadReadCr(t) ==
    /\ pc[t] = "thread_n_main"
    /\ crval' = [crval EXCEPT ![t] = ControlReg(t, CrIndex)]
    /\ pc' = [pc EXCEPT ![t] = "kprintf"]
    /\ UNCHANGED <<kpc, kmode, vm_state, vm_init_calls, kmalloc_calls, block, mem,
                   accesses, readval, thread_enable, ter_writes, entries, out>>

\* a thread that goes to its loop without emitting
ThreadPrintNothing(t) ==
    /\ pc[t] = "kprintf"
    /\ pc' = [pc EXCEPT ![t] = "loop"]
    /\ UNCHANGED <<kpc, kmode, vm_state, vm_init_calls, kmalloc_calls, block, mem,
                   accesses, readval, thread_enable, ter_writes, crval, entries, out>>

\* output taken in turns: a thread waits for the lower-numbered ones
ThreadPrintInTurn(t) ==
    /\ pc[t] = "kprintf"
    /\ \A u \in Workers : u < t => pc[u] = "loop"
    /\ out' = Append(out, [thread |-> t, text |-> FormatDec(crval[t])])
    /\ pc' = [pc EXCEPT ![t] = "loop"]
    /\ UNCHANGED <<kpc, kmode, vm_state, vm_init_calls, kmalloc_calls, block, mem,
                   accesses, readval, thread_enable, ter_writes, crval, entries>>

\* kprintf("%d", ...);
ThreadPrint(t) ==
    /\ pc[t] = "kprintf"
    /\ out' = Append(out, [thread |-> t, text |-> FormatDec(crval[t])])
    /\ pc' = [pc EXCEPT ![t] = "loop"]
    /\ UNCHANGED <<kpc, kmode, vm_state, vm_init_calls, kmalloc_calls, block, mem,
                   accesses, readval, thread_enable, ter_writes, crval, entries>>

\* a loop that ends: the thread falls back to the reset entry
ThreadLoopExits(t) ==
    /\ pc[t] = "loop"
    /\ pc' = [pc EXCEPT ![t] = "reset"]
    /\ UNCHANGED <<kpc, kmode, vm_state, vm_init_calls, kmalloc_calls, block, mem,
                   accesses, readval, thread_enable, ter_writes, crval, entries, out>>

\* for (;;) ;
ThreadLoop(t) ==
    /\ pc[t] = "loop"
    /\ UNCHANGED vars

KernelStep ==
    \/ KernelCallVmInit
    \/ VmInitReturn
    \/ VmInitFail
    \/ KernelHello
    \/ KernelCallKmalloc
    \/ KmallocReturn
    \/ KmallocFail
    \/ KernelWrite
    \/ KernelRead
    \/ KernelPrintHex
    \/ KernelRelease
    \/ KernelLoop

ThreadStep(t) ==
    \/ ThreadStart(t)
    \/ ThreadReadCr(t)
    \/ ThreadPrint(t)
    \/ ThreadLoop(t)

Next == KernelStep \/ \E t \in Threads : ThreadStep(t)

Spec == Init /\ [][Next]_vars

\* Every hardware thread that can execute an instruction eventually does.
FairSpec == Spec /\ WF_vars(KernelStep) /\ \A t \in Threads : WF_vars(ThreadStep(t))

\* The state of a hardware thread in the terms of the thread state machine.
ThreadState(t) ==
    IF pc[t] = "reset" THEN "HALTED_AT_RESET"
    ELSE IF t = 0 THEN (IF AtStmt("loop") THEN "IDLE_FOREVER" ELSE "RUNNING_BOOT")
    ELSE IF pc[t] = "loop" THEN "IDLE_FOREVER"
    ELSE "RUNNING_WORKER"

\* ------------------------------------------------------------ properties
TypeOK ==
    /\ pc \in [Threads -> {"reset", "kernel_main", "thread_n_main", "kprintf", "loop"}]
    /\ kpc \in 1 .. (Len(KernelOrder) + 1)
    /\ kmode \in {"run", "in_vm_init", "in_kmalloc", "halt", "fault"}
    /\ vm_state \in {"uninit", "running", "done", "failed"}
    /\ block \in HeapPages \cup {NullPtr, NoBlock}
    /\ mem \in [HeapPages -> InitWords \cup {Sentinel}]
    /\ entries \in [Threads -> 0 .. 1]

\* Reading a decimal text back: the inverse of "%d", written on its own.
DecValue(c) == CHOOSE d \in 0 .. 9 : DecChars[d + 1] = c
RECURSIVE ParseUDec(_)
ParseUDec(s) ==
    IF Len(s) = 0 THEN 0
    ELSE 10 * ParseUDec(SubSeq(s, 1, Len(s) - 1)) + DecValue(s[Len(s)])
ParseDec(s) == IF s[1] = "-" THEN 0 - ParseUDec(Tail(s)) ELSE ParseUDec(s)

\* C1: every write to the thread enable register is made when vm_init has
\* been called and has returned; none is made before the call or during it.
C1_ReleaseAfterVmInit ==
    /\ \A i \in 1 .. Len(ter_writes) : ter_writes[i][2] = "done"
    /\ ter_writes # <<>> => vm_init_calls >= 1 /\ vm_state = "done"
C1_Witness == ter_writes # <<>> /\ AtStmt("loop")

\* C2: whenever a thread other than thread 0 is executing or has executed
\* thread_n_main, virtual memory initialization is complete.
C2_WorkersSeeInitializedVm ==
    \A t \in Workers : (pc[t] # "reset" \/ entries[t] > 0) => vm_state = "done"
C2_Witness ==
    /\ \E t \in Workers : pc[t] = "thread_n_main"
    /\ \E t \in Workers : pc[t] = "loop"

\* C3: the thread enable register has been written 0 times while thread 0
\* is before the end of step 5 and exactly once from then on, and the one
\* write is thread 0's.
C3_ReleaseWrittenOnce ==
    /\ Len(ter_writes) = (IF AtStmt("loop") THEN 1 ELSE 0)
    /\ \A i \in 1 .. Len(ter_writes) : ter_writes[i][1] = 0
C3_Witness ==
    /\ AtStmt("loop")
    /\ vm_state = "done"
    /\ block \in HeapPages
    /\ \A t \in Workers : pc[t] = "loop"

\* C4: no thread other than thread 0 enters thread_n_main twice, and once
\* the register is written each of them eventually has entered it exactly
\* once.
C4_EveryWorkerEntersOnce ==
    /\ [](\A t \in Workers : entries[t] <= 1)
    /\ (ter_writes # <<>>) ~> (\A t \in Workers : entries[t] = 1 /\ pc[t] # "reset")
C4_Witness ==
    /\ thread_enable = OnesWord
    /\ \A t \in Workers : entries[t] = 1 /\ pc[t] = "loop"

\* C5: kernel_main never returns: thread 0 never runs off the end of
\* kernel_main and never leaves it for other code, and on every path it
\* ends for good in the infinite loop of kernel_main, or stuck in the
\* failed callee or the trap that a failure path leads to.
C5_KernelMainNeverReturns ==
    /\ [](~KernelReturned /\ pc[0] = "kernel_main")
    /\ [][AtStmt("loop") => AtStmt("loop")']_vars
    /\ <>[](AtStmt("loop") \/ kmode \in {"halt", "fault"})
C5_Witness == AtStmt("loop") /\ ter_writes # <<>>

\* C6: when kmalloc returned a page, the word read back through the
\* pointer after the write is 0xabcdef12, and it is printed as "abcdef12".
C6_RoundTrip ==
    /\ (block \in HeapPages /\ readval # NoWord)
           => readval = <<10, 11, 12, 13, 14, 15, 1, 2>>
    /\ \A i \in 1 .. Len(out) :
           (out[i].thread = 0 /\ out[i].text # Greeting /\ block \in HeapPages)
               => out[i].text = <<"a", "b", "c", "d", "e", "f", "1", "2", "\n">>
C6_Witness ==
    /\ block \in HeapPages
    /\ readval # NoWord
    /\ Len(out) >= 2
    /\ \E t \in Workers : pc[t] # "reset"

\* C7: the text a worker thread emits, read as a decimal number, is that
\* thread's own control register 0 and no other thread's.
C7_WorkerEmitsOwnId ==
    \A i \in 1 .. Len(out) :
        LET t == out[i].thread
            v == ParseDec(out[i].text)
        IN  t \in Workers =>
                /\ v = ControlReg(t, 0)
                /\ v = crval[t]
                /\ \A u \in Threads \ {t} : v # ControlReg(u, 0)
C7_Witness ==
    \A t \in Workers : \E i \in 1 .. Len(out) : out[i].thread = t

\* C8: vm_init is called exactly once, and its call has returned at every
\* call of kmalloc and at every load or store through block.
C8_VmInitOnceAndFirst ==
    /\ vm_init_calls <= 1
    /\ (kpc > 1 \/ kmode # "run") => vm_init_calls = 1
    /\ \A i \in 1 .. Len(kmalloc_calls) : kmalloc_calls[i][2] = "done"
    /\ \A i \in 1 .. Len(accesses) : accesses[i][3] = "done"
    /\ (kmalloc_calls # <<>> \/ accesses # <<>>) => vm_state = "done"
C8_Witness == Len(kmalloc_calls) = 1 /\ Len(accesses) = 2 /\ vm_init_calls = 1

\* C9: when kmalloc fails, kernel_main neither stores nor loads through the
\* pointer the failed call returned.
C9_AllocationFailureStopsSmokeTest ==
    block = NullPtr => \A i \in 1 .. Len(accesses) : accesses[i][2] # NullPtr

\* C10: when vm_init fails, kmalloc is never called, the thread enable
\* register is never written and every other thread stays at reset, and
\* that stays so for ever.
C10_VmInitFailureStopsBoot ==
    /\ [](vm_state = "failed" =>
             /\ kmode = "halt"
             /\ kmalloc_calls = <<>>
             /\ ter_writes = <<>>
             /\ thread_enable = ResetEnable
             /\ \A t \in Workers : pc[t] = "reset" /\ entries[t] = 0)
    /\ [][vm_state = "failed" => vm_state' = "failed"]_vars
C10_Witness == vm_state = "failed" /\ kmode = "halt"

\* C11: a smoke-test mismatch is not fatal.  Once a word other than the
\* one written has been read back, thread 0 is never stopped by it, and it
\* goes on to emit that word, to write the thread enable register and to
\* stay in its infinite loop, just as it does when the word matches.
Mismatch == readval # NoWord /\ readval # Sentinel
HexEmitted ==
    /\ readval # NoWord
    /\ \E i \in 1 .. Len(out) :
           out[i].thread = 0 /\ out[i].text = FormatHex8(readval) \o <<"\n">>
C11_MismatchNotFatal ==
    /\ [](Mismatch => kmode = "run")
    /\ Mismatch ~> (HexEmitted /\ ter_writes # <<>> /\ AtStmt("loop"))
    /\ (readval # NoWord) ~> (HexEmitted /\ ter_writes # <<>> /\ AtStmt("loop"))
C11_Witness ==
    /\ Mismatch
    /\ HexEmitted
    /\ thread_enable = EnableMask
    /\ AtStmt("loop")

\* C12: once the thread enable register is written it holds 0xffffffff:
\* every bit is set, so the bit of every hardware thread present is set,
\* and the register never holds a mask that the write made and that
\* leaves a thread out.
C12_ReleaseEnablesAllThreads ==
    ter_writes # <<>> =>
        /\ thread_enable = <<15, 15, 15, 15, 15, 15, 15, 15>>
        /\ \A i \in 0 .. 31 : Bit(thread_enable, i)
        /\ \A t \in Threads : Bit(thread_enable, t)
C12_Witness ==
    /\ Len(ter_writes) = 1
    /\ \A t \in Threads : Bit(thread_enable, t)
    /\ \E t \in Workers : pc[t] = "reset"

\* C13: while the thread enable register has not been written, every
\* thread other than thread 0 is halted at reset and has entered nothing,
\* and thread 0 alone runs; a thread other than thread 0 leaves reset only
\* in a state where the register has been written with its bit set.
C13_HaltedUntilRelease ==
    /\ [](ter_writes = <<>> =>
             /\ \A t \in Workers : ThreadState(t) = "HALTED_AT_RESET" /\ entries[t] = 0
             /\ ThreadState(0) # "HALTED_AT_RESET")
    /\ [][\A t \in Workers :
             (pc[t] = "reset" /\ pc'[t] # "reset")
                 => (ter_writes # <<>> /\ Bit(thread_enable, t))]_vars
C13_Witness ==
    /\ ter_writes = <<>>
    /\ AtStmt("release")
    /\ \A t \in Workers : ThreadState(t) = "HALTED_AT_RESET"

Emitted(t, text) == \E i \in 1 .. Len(out) : out[i] = [thread |-> t, text |-> text]
BootComplete ==
    /\ Emitted(0, <<"Hello kernel land", "\n">>)
    /\ Emitted(0, <<"a", "b", "c", "d", "e", "f", "1", "2", "\n">>)
    /\ thread_enable = <<15, 15, 15, 15, 15, 15, 15, 15>>
    /\ \A t \in Workers : \E i \in 1 .. Len(out) :
           out[i].thread = t /\ ParseDec(out[i].text) = ControlReg(t, 0)
    /\ Len(out) = NumThreads + 1
    /\ \A t \in Threads : ThreadState(t) = "IDLE_FOREVER"
C15_BootCompletes ==
    /\ (vm_state = "done" /\ block \in HeapPages) ~> BootComplete
    /\ [][BootComplete => BootComplete']_vars
    /\ [](~KernelReturned)
C15_Witness == BootComplete /\ vm_state = "done" /\ block \in HeapPages

\* C16: a released worker never waits: whatever the other threads are
\* doing, its next step (leaving reset, reading the control register,
\* emitting) can be taken.  In particular, when two workers are both about
\* to emit, either may emit first.
C16_WorkersNeverBlocked ==
    \A t \in Workers :
        /\ (pc[t] = "reset" /\ Bit(thread_enable, t)) => ENABLED ThreadStart(t)
        /\ pc[t] = "thread_n_main" => ENABLED ThreadReadCr(t)
        /\ pc[t] = "kprintf" => ENABLED ThreadPrint(t)
C16_Witness ==
    /\ \A t \in Workers : pc[t] = "kprintf"
    /\ \A i \in 1 .. Len(out) : out[i].thread = 0
\* The two orders of emission, each of which is reached.
C16_LowerFirst ==
    \E i, j \in 1 .. Len(out) :
        i < j /\ out[i].thread \in Workers /\ out[j].thread \in Workers
              /\ out[i].thread < out[j].thread
C16_HigherFirst ==
    \E i, j \in 1 .. Len(out) :
        i < j /\ out[i].thread \in Workers /\ out[j].thread \in Workers
              /\ out[i].thread > out[j].thread

\* C17: once thread 0 has written the thread enable register it does no
\* more work: its part of the diagnostic stream, the calls of kmalloc, the
\* accesses to memory, the heap and the register writes never change
\* again, and no store to address 1 is ever made.
FromThread0(r) == r.thread = 0
ThreadZeroOut == SelectSeq(out, FromThread0)
C17_NoWorkAfterRelease ==
    /\ [][ter_writes # <<>> =>
             /\ ThreadZeroOut' = ThreadZeroOut
             /\ kmalloc_calls' = kmalloc_calls
             /\ accesses' = accesses
             /\ mem' = mem
             /\ ter_writes' = ter_writes
             /\ kmode' = kmode /\ kpc' = kpc]_vars
    /\ [](\A i \in 1 .. Len(accesses) : accesses[i][2] # <<0, 0, 0, 0, 0, 0, 0, 1>>)
C17_Witness ==
    /\ ter_writes # <<>>
    /\ AtStmt("loop")
    /\ Len(ThreadZeroOut) = 2
    /\ Len(out) > 2

\* C18: in the diagnostic stream the greeting and the hex value of thread 0
\* both come before every identity value of a worker.
FromWorker(r) == r.thread \in Workers
C18_BootOutputFirst ==
    \A j \in 1 .. Len(out) :
        out[j].thread \in Workers =>
            /\ j > 2
            /\ out[1] = [thread |-> 0, text |-> Greeting]
            /\ out[2].thread = 0 /\ Len(out[2].text) = 9
            /\ \A i \in 1 .. Len(out) : out[i].thread = 0 => i < j
C18_Witness ==
    /\ Len(out) = 3
    /\ out[3].thread \in Workers
    /\ out[1].thread = 0 /\ out[2].thread = 0

\* C19: thread 0 never enters thread_n_main and never emits an identity
\* value: it stays in kernel_main, all it emits is the greeting and the
\* hex value, each other thread emits at most one value, and when all of
\* them are in their loops exactly NumThreads - 1 values have been emitted.
IdentityCount == Len(SelectSeq(out, FromWorker))
C19_ThreadZeroNotAWorker ==
    /\ pc[0] = "kernel_main"
    /\ entries[0] = 0
    /\ crval[0] = NoValue
    /\ Len(ThreadZeroOut) <= 2
    /\ \A i \in 1 .. Len(out) :
           out[i].thread = 0 => (out[i].text = Greeting \/ Len(out[i].text) = 9)
    /\ \A t \in Workers :
           Cardinality({i \in 1 .. Len(out) : out[i].thread = t}) <= 1
    /\ (\A t \in Workers : pc[t] = "loop") => IdentityCount = NumThreads - 1
C19_Witness ==
    /\ Bit(thread_enable, 0)
    /\ ter_writes # <<>>
    /\ IdentityCount = NumThreads - 1
    /\ ThreadState(0) = "IDLE_FOREVER"

====
